---- MODULE Spec2Model ----
(***************************************************************************)
(* Model of artifact_app.py: the Streamlit script that analyses an         *)
(* uploaded video (analyse_video), renders the result, appends it to the   *)
(* session gallery and re-displays the gallery newest-first.               *)
(*                                                                         *)
(* One run of the script is a sequence of steps (pc); the session state    *)
(* (gallery) survives from run to run.  The sampling loop of analyse_video *)
(* takes one step per cap.read().                                          *)
(*                                                                         *)
(* Numbers: a frame's mean colour is a BGR triple of integers in 0..255.   *)
(* The mean over the sampled frames is kept exactly, as the channel sums   *)
(* together with the number of frames (np.mean divides all three channels  *)
(* by the same positive count, so the comparisons of lines 83-85 are the   *)
(* comparisons of the sums).  The confidence is kept as a fraction.        *)
(***************************************************************************)
EXTENDS Integers, Sequences, FiniteSets, TLC

\* ---------------------------------------------------------------- bounds
MaxRuns == 2        \* script runs in the session
MaxFrames == 9      \* frames a video source yields at most
MaxSampled == 3     \* frames sampled from one video at most

\* ------------------------------------------------------------- constants
DefaultFrameStep == 8

\* Strides analyse_video is called with: the default and two smaller ones.
FrameSteps == {1, 2, DefaultFrameStep}

\* Mean colours (B, G, R) a sampled frame may have: a dull red (red channel
\* greatest by a little), a strong blue and a grey.
DullRed == <<100, 20, 110>>
Blue == <<200, 20, 20>>
Grey == <<128, 128, 128>>
FrameColours == {DullRed, Blue, Grey}

Filenames == {"a.mp4", "b.mp4"}

\* Python's None, for a file name or an exception, a result, a shown error
\* and a path.
None == "None"
NoResult == [decision |-> None]
NoError == <<>>
NoPath == <<>>

\* The name tempfile gives the temporary file of the n-th run.
TempName(n) == <<"tmp", n, ".mp4">>
OpenError == "Could not open the video file."
NoFramesError == "No frames processed. Try a shorter or clearer video."
OtherError == "cv2.error"

\* The keys of counts, in the insertion order of the dict literal.
CountKeys == <<"red", "blue", "other">>

VARIABLES
    gallery,          \* st.session_state.gallery
    displayed,        \* the gallery items rendered by this run, top to bottom
    error,            \* the text st.error showed in this run, or NoError
    pc,               \* position of the script run
    runs,             \* script runs started so far in the session
    now,              \* datetime.now(), in seconds
    uploaded_file,    \* name of the file in the uploader, or None
    temp_video_path,  \* path of this run's temporary file, or NoPath
    temp_files,       \* paths of the temporary files that exist
    cap,              \* the VideoCapture: "closed", "opened" or "released"
    frame_step,       \* analyse_video's stride
    frame_idx,        \* frames read so far
    avg_colors,       \* mean colour of every sampled frame
    counts,           \* frames per bucket
    exc,              \* the exception in flight, or None
    result,           \* what analyse_video returned, or NoResult
    gallery_at_start  \* history variable: the gallery when this run started

vars == <<gallery, displayed, error, pc, runs, now, uploaded_file,
          temp_video_path, temp_files, cap, frame_step, frame_idx,
          avg_colors, counts, exc, result, gallery_at_start>>

session == <<gallery, displayed, error, runs, now, uploaded_file,
             temp_video_path, temp_files, gallery_at_start>>

locals == <<cap, frame_step, frame_idx, avg_colors, counts, result>>

ZeroCounts == [k \in {"red", "blue", "other"} |-> 0]

\* --------------------------------------------------------- analyse_video

\* The bucket of a sampled frame from its mean colour.
Bucket(mean_bgr) ==
    LET b == mean_bgr[1]
        g == mean_bgr[2]
        r == mean_bgr[3]
    IN  IF (r > b) /\ (r > g) THEN "red"
        ELSE IF (b > r) /\ (b > g) THEN "blue"
        ELSE "other"

\* Whether the frame with this index is sampled.  (IsSampledOffByOne: the
\* variant that counts frames from one.)
IsSampledOffByOne(idx, step) == (idx + 1) % step = 0

IsSampled(idx, step) == idx % step = 0

\* counts after a frame of this mean colour is classified.  (CountFrameTwice:
\* the variant whose else branch is taken by every frame.)
CountFrameTwice(c, mean_bgr) ==
    [c EXCEPT ![Bucket(mean_bgr)] = @ + 1, !["other"] = @ + 1]

CountFrame(c, mean_bgr) == [c EXCEPT ![Bucket(mean_bgr)] = @ + 1]

\* Whether the no-frames error is raised after the loop.  (NoFramesNever: the
\* variant without the check.)
NoFramesNever(colors) == FALSE

NoFrames(colors) == colors = <<>>

RECURSIVE SumBGR(_)
SumBGR(colors) ==
    IF colors = <<>> THEN <<0, 0, 0>>
    ELSE LET s == SumBGR(Tail(colors))
             h == Head(colors)
         IN  <<h[1] + s[1], h[2] + s[2], h[3] + s[3]>>

\* np.mean over the sampled frames: the channel sums over their number.
MeanBGR(colors) == [sum |-> SumBGR(colors), n |-> Len(colors)]

\* Python's max(iterable, key=...): the first element with the greatest key.
RECURSIVE MaxScan(_, _, _)
MaxScan(keys, c, best) ==
    IF keys = <<>> THEN best
    ELSE MaxScan(Tail(keys), c,
                 IF c[Head(keys)] > c[best] THEN Head(keys) ELSE best)

\* The variant that returns the last element with the greatest key.
RECURSIVE MaxScanLast(_, _, _)
MaxScanLast(keys, c, best) ==
    IF keys = <<>> THEN best
    ELSE MaxScanLast(Tail(keys), c,
                     IF c[Head(keys)] >= c[best] THEN Head(keys) ELSE best)

MajorityLastMax(c) == MaxScanLast(Tail(CountKeys), c, Head(CountKeys))

Majority(c) == MaxScan(Tail(CountKeys), c, Head(CountKeys))

\* The decision from the average colour alone.
AverageDecision(avg_bgr) ==
    LET b_avg == avg_bgr.sum[1]
        g_avg == avg_bgr.sum[2]
        r_avg == avg_bgr.sum[3]
    IN  IF (r_avg > b_avg) /\ (r_avg > g_avg) THEN "REAL (Red tones on average)"
        ELSE IF (b_avg > r_avg) /\ (b_avg > g_avg)
             THEN "FAKE (Blue tones on average)"
        ELSE "INCONCLUSIVE"

\* The decision.  (DecisionAverageOnTie: the variant that consults the
\* average colour when the three counts are tied.)
DecisionAverageOnTie(c, majority, avg_bgr) ==
    IF c["red"] = c["blue"] /\ c["blue"] = c["other"] THEN AverageDecision(avg_bgr)
    ELSE IF majority = "red" THEN "REAL (Red tones dominant)"
    ELSE IF majority = "blue" THEN "FAKE (Blue tones dominant)"
    ELSE AverageDecision(avg_bgr)

Decision(c, majority, avg_bgr) ==
    IF majority = "red" THEN "REAL (Red tones dominant)"
    ELSE IF majority = "blue" THEN "FAKE (Blue tones dominant)"
    ELSE AverageDecision(avg_bgr)

\* The confidence, as a fraction.  (ConfidenceOfWarm: the variant that takes
\* the warm count whatever the winner.)
ConfidenceOfWarm(c, majority) ==
    [num |-> c["red"], den |-> c["red"] + c["blue"] + c["other"]]

Confidence(c, majority) ==
    [num |-> c[majority], den |-> c["red"] + c["blue"] + c["other"]]

AnalysisResult(colors, c) ==
    LET avg_bgr == MeanBGR(colors)
        majority == Majority(c)
    IN  [avg_bgr |-> avg_bgr,
         counts |-> c,
         decision |-> Decision(c, majority, avg_bgr),
         confidence |-> Confidence(c, majority)]

\* ------------------------------------------------- presentation, gallery

\* f"{confidence*100:.1f}%": the percentage in tenths, rounded half to even.
FormatPercent(conf) ==
    LET q == (1000 * conf.num) \div conf.den
        r == (1000 * conf.num) % conf.den
    IN  IF 2 * r > conf.den \/ (2 * r = conf.den /\ q % 2 = 1) THEN q + 1 ELSE q

\* The pixel the colour patch is filled with: rgb is (R, G, B) truncated to
\* integers, and the patch takes [rgb[2], rgb[1], rgb[0]].
ColourPatch(avg_bgr) ==
    LET rgb == <<avg_bgr.sum[3] \div avg_bgr.n,
                 avg_bgr.sum[2] \div avg_bgr.n,
                 avg_bgr.sum[1] \div avg_bgr.n>>
    IN  <<rgb[3], rgb[2], rgb[1]>>

GalleryEntry(res, filename, timestamp) ==
    [filename |-> filename,
     decision |-> res.decision,
     confidence |-> FormatPercent(res.confidence),
     colour_patch |-> ColourPatch(res.avg_bgr),
     timestamp |-> timestamp]

\* gallery.append(entry).  (GalleryPrepend: the variant that inserts at the
\* front.)
GalleryPrepend(g, entry) == <<entry>> \o g

GalleryAppend(g, entry) == Append(g, entry)

\* reversed(gallery).  (SameOrder: the variant that iterates the gallery as
\* stored.)
SameOrder(g) == g

Reversed(g) == [i \in 1..Len(g) |-> g[Len(g) + 1 - i]]

\* os.unlink.  (UnlinkNothing: the variant that leaves the file.)
UnlinkNothing(files, path) == files

Unlink(files, path) == files \ {path}

\* st.error(f"An error occurred: {e}")
ErrorText(e) == <<"An error occurred: ", e>>

\* ------------------------------------------------------------------ Init

Init ==
    /\ gallery = <<>>
    /\ displayed = <<>>
    /\ error = NoError
    /\ pc = "idle"
    /\ runs = 0
    /\ now = 0
    /\ uploaded_file = None
    /\ temp_video_path = NoPath
    /\ temp_files = {}
    /\ cap = "closed"
    /\ frame_step = DefaultFrameStep
    /\ frame_idx = 0
    /\ avg_colors = <<>>
    /\ counts = ZeroCounts
    /\ exc = None
    /\ result = NoResult
    /\ gallery_at_start = <<>>

\* --------------------------------------------------------------- actions

\* A user interaction starts a run of the script; the uploader holds a file
\* or nothing.  The clock has moved on since the last run.
ScriptStart ==
    /\ pc \in {"idle", "crashed"}
    /\ runs < MaxRuns
    /\ runs' = runs + 1
    /\ \E f \in Filenames \cup {None} :
          /\ uploaded_file' = f
          /\ pc' = IF f = None THEN "display" ELSE "upload"
    /\ now' = now + 1
    /\ displayed' = <<>>
    /\ error' = NoError
    /\ exc' = None
    /\ temp_video_path' = NoPath
    /\ gallery_at_start' = gallery
    /\ cap' = "closed"
    /\ frame_step' = DefaultFrameStep
    /\ frame_idx' = 0
    /\ avg_colors' = <<>>
    /\ counts' = ZeroCounts
    /\ result' = NoResult
    /\ UNCHANGED <<gallery, temp_files>>

\* The upload is written to a fresh temporary file.
WriteTempFile ==
    /\ pc = "upload"
    /\ temp_video_path' = TempName(runs)
    /\ temp_files' = temp_files \cup {TempName(runs)}
    /\ pc' = "try"
    /\ UNCHANGED <<gallery, displayed, error, runs, now, uploaded_file, exc,
                   gallery_at_start>>
    /\ UNCHANGED locals

\* Writing the upload raises after the file was created: the exception is
\* outside the try statement and ends the run.
WriteTempFileFails ==
    /\ pc = "upload"
    /\ temp_files' = temp_files \cup {TempName(runs)}
    /\ pc' = "crashed"
    /\ UNCHANGED <<gallery, displayed, error, runs, now, uploaded_file,
                   temp_video_path, exc, gallery_at_start>>
    /\ UNCHANGED locals

\* analyse_video is entered and the capture opens the file.
OpenVideo ==
    /\ pc = "try"
    /\ \E s \in FrameSteps : frame_step' = s
    /\ cap' = "opened"
    /\ frame_idx' = 0
    /\ avg_colors' = <<>>
    /\ counts' = ZeroCounts
    /\ pc' = "loop"
    /\ UNCHANGED <<exc, result>>
    /\ UNCHANGED session

\* The capture cannot open the file.
OpenVideoFails ==
    /\ pc = "try"
    /\ exc' = OpenError
    /\ pc' = "except"
    /\ UNCHANGED locals
    /\ UNCHANGED session

\* cap.read() returns a frame: it is sampled or skipped.
ReadFrame ==
    /\ pc = "loop"
    /\ frame_idx < MaxFrames
    /\ IF IsSampled(frame_idx, frame_step)
       THEN /\ Len(avg_colors) < MaxSampled
            /\ \E mean_bgr \in FrameColours :
                  /\ counts' = CountFrame(counts, mean_bgr)
                  /\ avg_colors' = Append(avg_colors, mean_bgr)
       ELSE UNCHANGED <<counts, avg_colors>>
    /\ frame_idx' = frame_idx + 1
    /\ UNCHANGED <<pc, cap, frame_step, exc, result>>
    /\ UNCHANGED session

\* cap.read() returns a frame and processing it raises (cv2.resize); the
\* exception leaves analyse_video, whose local variables end with the call.
ReadFrameFails ==
    /\ pc = "loop"
    /\ frame_idx < MaxFrames
    /\ IsSampled(frame_idx, frame_step)
    /\ exc' = OtherError
    /\ pc' = "except"
    /\ frame_step' = DefaultFrameStep
    /\ frame_idx' = 0
    /\ avg_colors' = <<>>
    /\ counts' = ZeroCounts
    /\ UNCHANGED <<cap, result>>
    /\ UNCHANGED session

\* cap.read() returns no frame: the loop ends, the capture is released and
\* analyse_video raises the no-frames error or returns its result.  Its
\* local variables end with the call.
EndOfStream ==
    /\ pc = "loop"
    /\ cap' = "released"
    /\ IF NoFrames(avg_colors)
       THEN /\ exc' = NoFramesError
            /\ pc' = "except"
            /\ UNCHANGED result
       ELSE /\ result' = AnalysisResult(avg_colors, counts)
            /\ pc' = "render"
            /\ UNCHANGED exc
    /\ frame_step' = DefaultFrameStep
    /\ frame_idx' = 0
    /\ avg_colors' = <<>>
    /\ counts' = ZeroCounts
    /\ UNCHANGED session

\* The result is displayed and saved to the gallery.
Render ==
    /\ pc = "render"
    /\ gallery' = GalleryAppend(gallery, GalleryEntry(result, uploaded_file, now))
    /\ pc' = "finally"
    /\ UNCHANGED <<displayed, error, runs, now, uploaded_file, temp_video_path,
                   temp_files, exc, gallery_at_start>>
    /\ UNCHANGED locals

\* Displaying the result raises before the gallery is reached.
RenderFails ==
    /\ pc = "render"
    /\ exc' = OtherError
    /\ pc' = "except"
    /\ UNCHANGED session
    /\ UNCHANGED locals

\* The variant of the except clause that records the failure in the gallery.
ExceptAddsEntry ==
    /\ pc = "except"
    /\ error' = ErrorText(exc)
    /\ gallery' = Append(gallery, [filename |-> uploaded_file, decision |-> exc,
                                   confidence |-> 0, colour_patch |-> <<0, 0, 0>>,
                                   timestamp |-> now])
    /\ exc' = None
    /\ pc' = "finally"
    /\ UNCHANGED <<displayed, runs, now, uploaded_file, temp_video_path,
                   temp_files, gallery_at_start>>
    /\ UNCHANGED locals

\* except Exception as e: the message is shown.
Except ==
    /\ pc = "except"
    /\ error' = ErrorText(exc)
    /\ exc' = None
    /\ pc' = "finally"
    /\ UNCHANGED <<gallery, displayed, runs, now, uploaded_file,
                   temp_video_path, temp_files, gallery_at_start>>
    /\ UNCHANGED locals

\* finally: the temporary file is removed.
Finally ==
    /\ pc = "finally"
    /\ temp_files' = Unlink(temp_files, temp_video_path)
    /\ pc' = "display"
    /\ UNCHANGED <<gallery, displayed, error, runs, now, uploaded_file,
                   temp_video_path, exc, gallery_at_start>>
    /\ UNCHANGED locals

\* The gallery section: every item, newest first.
GalleryDisplay ==
    /\ pc = "display"
    /\ displayed' = Reversed(gallery)
    /\ pc' = "idle"
    /\ UNCHANGED <<gallery, error, runs, now, uploaded_file, temp_video_path,
                   temp_files, exc, gallery_at_start>>
    /\ UNCHANGED locals

Next ==
    \/ ScriptStart
    \/ WriteTempFile
    \/ WriteTempFileFails
    \/ OpenVideo
    \/ OpenVideoFails
    \/ ReadFrame
    \/ ReadFrameFails
    \/ EndOfStream
    \/ Render
    \/ RenderFails
    \/ Except
    \/ Finally
    \/ GalleryDisplay

Spec == Init /\ [][Next]_vars

\* ---------------------------------------------------------------- claims

\* C1: in every returned result with bucket counts (w, c, n), w+c+n >= 1,
\* the winner is the bucket with the highest count, ties going to warm, then
\* cool, then neutral; a warm winner decides REAL and a cool winner FAKE
\* whatever the average colour is; only a neutral winner consults the
\* average colour (red strictly greatest: REAL, blue strictly greatest:
\* FAKE, otherwise INCONCLUSIVE).
C1_MajorityDecides ==
    result # NoResult =>
        LET w == result.counts["red"]
            c == result.counts["blue"]
            n == result.counts["other"]
            b_avg == result.avg_bgr.sum[1]
            g_avg == result.avg_bgr.sum[2]
            r_avg == result.avg_bgr.sum[3]
            winner == IF w >= c /\ w >= n THEN "warm"
                      ELSE IF c >= n THEN "cool"
                      ELSE "neutral"
        IN  /\ w + c + n >= 1
            /\ winner = "warm" => result.decision = "REAL (Red tones dominant)"
            /\ winner = "cool" => result.decision = "FAKE (Blue tones dominant)"
            /\ winner = "neutral" =>
                  result.decision =
                      IF r_avg > b_avg /\ r_avg > g_avg
                      THEN "REAL (Red tones on average)"
                      ELSE IF b_avg > r_avg /\ b_avg > g_avg
                           THEN "FAKE (Blue tones on average)"
                      ELSE "INCONCLUSIVE"

\* C1 witness: warm ties with cool ahead of neutral, and the decision is REAL
\* although blue is the strictly greatest channel of the average colour.
C1_Witness ==
    /\ result # NoResult
    /\ result.counts["red"] = result.counts["blue"]
    /\ result.counts["red"] > result.counts["other"]
    /\ result.avg_bgr.sum[1] > result.avg_bgr.sum[3]
    /\ result.avg_bgr.sum[1] > result.avg_bgr.sum[2]
    /\ result.decision = "REAL (Red tones dominant)"

\* C2 as stated: when the three bucket counts are tied (w = c = n > 0) the
\* decision is the one the average colour gives, INCONCLUSIVE when the
\* average channels are exactly equal.
C2_TieFallsThroughToAverage ==
    (/\ result # NoResult
     /\ result.counts["red"] > 0
     /\ result.counts["red"] = result.counts["blue"]
     /\ result.counts["blue"] = result.counts["other"]) =>
        LET b_avg == result.avg_bgr.sum[1]
            g_avg == result.avg_bgr.sum[2]
            r_avg == result.avg_bgr.sum[3]
        IN  result.decision =
                IF r_avg > b_avg /\ r_avg > g_avg
                THEN "REAL (Red tones on average)"
                ELSE IF b_avg > r_avg /\ b_avg > g_avg
                     THEN "FAKE (Blue tones on average)"
                ELSE "INCONCLUSIVE"

\* C2 amended: when the three bucket counts are tied (w = c = n > 0) the
\* warm bucket wins and the decision is REAL (Red tones dominant) without
\* the average colour being consulted; the decision is taken from the
\* average colour only when the neutral count is strictly greater than both
\* the warm and the cool count, and then exactly equal average channels give
\* INCONCLUSIVE.
C2_TieGoesToWarm ==
    result # NoResult =>
        LET w == result.counts["red"]
            c == result.counts["blue"]
            n == result.counts["other"]
            b_avg == result.avg_bgr.sum[1]
            g_avg == result.avg_bgr.sum[2]
            r_avg == result.avg_bgr.sum[3]
            on_average == {"REAL (Red tones on average)",
                           "FAKE (Blue tones on average)", "INCONCLUSIVE"}
        IN  /\ (w > 0 /\ w = c /\ c = n) =>
                  result.decision = "REAL (Red tones dominant)"
            /\ result.decision \in on_average <=> (n > w /\ n > c)
            /\ (n > w /\ n > c /\ b_avg = g_avg /\ g_avg = r_avg) =>
                  result.decision = "INCONCLUSIVE"

\* C2 witness: a three-way tie decided REAL (Red tones dominant) while the
\* average colour has blue strictly greatest.
C2_Witness ==
    /\ result # NoResult
    /\ result.counts["red"] = 1
    /\ result.counts["blue"] = 1
    /\ result.counts["other"] = 1
    /\ result.avg_bgr.sum[1] > result.avg_bgr.sum[3]
    /\ result.avg_bgr.sum[1] > result.avg_bgr.sum[2]
    /\ result.decision = "REAL (Red tones dominant)"

\* C3: the confidence of every returned result is max(w, c, n) / F, where F
\* is the number of sampled frames.
C3_ConfidenceIsMaxOverF ==
    result # NoResult =>
        LET w == result.counts["red"]
            c == result.counts["blue"]
            n == result.counts["other"]
            F == result.avg_bgr.n
            m == CHOOSE x \in {w, c, n} : \A y \in {w, c, n} : x >= y
        IN  /\ F >= 1
            /\ w + c + n = F
            /\ result.confidence.den > 0
            /\ result.confidence.num * F = m * result.confidence.den

\* C3 witness: three sampled frames, two of them cool: confidence 2/3.
C3_Witness ==
    /\ result # NoResult
    /\ result.avg_bgr.n = 3
    /\ result.counts["blue"] = 2
    /\ result.counts["red"] = 1
    /\ result.confidence.num * 3 = 2 * result.confidence.den

\* C4: while an exception of the upload's processing is in flight, and after
\* its message was shown, the gallery is the gallery the run started with;
\* the except clause shows the exception's message and leaves the gallery
\* alone.
C4_FailureLeavesGallery ==
    /\ []((exc # None \/ error # NoError) => gallery = gallery_at_start)
    /\ [][pc = "except" =>
             /\ exc # None
             /\ error' = <<"An error occurred: ", exc>>
             /\ gallery' = gallery]_vars

\* C4 witness: a run that failed with the no-frames error has ended, after an
\* earlier upload was saved; the gallery still holds that one entry.
C4_Witness ==
    /\ pc = "idle"
    /\ error = <<"An error occurred: ", NoFramesError>>
    /\ Len(gallery) = 1
    /\ gallery = gallery_at_start

\* C5: once the try statement of an upload is over (the run is at the
\* gallery section or has ended), the temporary file written for the upload
\* does not exist, whether the analysis succeeded or an exception was caught.
C5_TempFileRemoved ==
    (pc \in {"display", "idle"} /\ temp_video_path # NoPath) =>
        temp_video_path \notin temp_files

\* C5 witness: a run that caught an exception has ended, its temporary file
\* and that of the earlier successful upload are gone.
C5_Witness ==
    /\ pc = "idle"
    /\ temp_video_path # NoPath
    /\ error # NoError
    /\ Len(gallery) = 1
    /\ temp_files = {}

\* C6: when the source is exhausted with no frame sampled, analyse_video
\* raises the no-frames error and returns nothing; a returned result never
\* has all three counts 0.
C6_NoFramesRaises ==
    /\ [][(cap = "opened" /\ cap' = "released" /\ avg_colors = <<>>) =>
             /\ exc' = NoFramesError
             /\ pc' = "except"
             /\ result' = NoResult]_vars
    /\ [](result # NoResult =>
             result.counts["red"] + result.counts["blue"]
                 + result.counts["other"] > 0)

\* C6 witness: the capture was released and the no-frames error is in flight.
C6_Witness ==
    /\ cap = "released"
    /\ pc = "except"
    /\ exc = NoFramesError
    /\ result = NoResult

\* C7: during the sampling loop the three counts sum to the number of frames
\* sampled so far, every sampled frame increments exactly one counter by
\* one, and the counts of a returned result sum to its number of frames.
C7_CountsSumToSampled ==
    /\ [](counts["red"] + counts["blue"] + counts["other"] = Len(avg_colors))
    /\ [](result # NoResult =>
             result.counts["red"] + result.counts["blue"]
                 + result.counts["other"] = result.avg_bgr.n)
    /\ [][Len(avg_colors') = Len(avg_colors) + 1 =>
             \E k \in {"red", "blue", "other"} :
                 /\ counts'[k] = counts[k] + 1
                 /\ \A j \in {"red", "blue", "other"} \ {k} :
                        counts'[j] = counts[j]]_vars

\* C7 witness: in the loop, with frames skipped and one frame in each bucket.
C7_Witness ==
    /\ pc = "loop"
    /\ frame_idx > Len(avg_colors)
    /\ counts["red"] = 1
    /\ counts["blue"] = 1
    /\ counts["other"] = 1

\* C8: after every render of the gallery section the displayed items are
\* the gallery's entries newest first: an entry appended later is displayed
\* before every entry appended earlier.
C8_NewestFirst ==
    pc = "idle" =>
        /\ Len(displayed) = Len(gallery)
        /\ \A i \in 1..Len(gallery) : \A j \in 1..Len(gallery) :
              i < j =>
                  \E p \in 1..Len(displayed) : \E q \in 1..Len(displayed) :
                      /\ p < q
                      /\ p + j = Len(gallery) + 1
                      /\ q + i = Len(gallery) + 1
                      /\ displayed[p] = gallery[j]
                      /\ displayed[q] = gallery[i]
        /\ Len(gallery) = 1 => displayed[1] = gallery[1]

\* C8 witness: a.mp4 was analysed, then b.mp4; b.mp4 is displayed first.
C8_Witness ==
    /\ pc = "idle"
    /\ Len(gallery) = 2
    /\ gallery[1].filename = "a.mp4"
    /\ gallery[2].filename = "b.mp4"
    /\ displayed[1].filename = "b.mp4"
    /\ displayed[2].filename = "a.mp4"

\* C9: the gallery starts empty; no step removes or changes an entry or
\* shortens the gallery; saving a result appends exactly one entry at the
\* end; and when the try statement of an upload ends without an error the
\* gallery is the gallery the run started with plus one entry.
C9_AppendOnly ==
    /\ gallery = <<>>
    /\ [][/\ Len(gallery') >= Len(gallery)
          /\ \A i \in 1..Len(gallery) : gallery'[i] = gallery[i]]_vars
    /\ [][(pc = "render" /\ pc' = "finally") =>
             Len(gallery') = Len(gallery) + 1]_vars
    /\ []((pc = "finally" /\ error = NoError) =>
             /\ Len(gallery) = Len(gallery_at_start) + 1
             /\ \A i \in 1..Len(gallery_at_start) :
                    gallery[i] = gallery_at_start[i])

\* C9 witness: the second successful upload has just been saved behind the
\* first.
C9_Witness ==
    /\ pc = "finally"
    /\ error = NoError
    /\ Len(gallery) = 2
    /\ Len(gallery_at_start) = 1
    /\ gallery[1] = gallery_at_start[1]

\* C10: frames are read in order and a frame is sampled exactly when its
\* zero-based index is a multiple of the stride, so after N frames
\* ceil(N / s) frames were sampled, frame 0 is sampled whenever a frame was
\* read, and the no-frames error is raised only when no frame was read.
C10_SamplesMultiplesOfStride ==
    /\ [](frame_step >= 1)
    /\ [](pc = "loop" =>
             Len(avg_colors) = (frame_idx + frame_step - 1) \div frame_step)
    /\ []((pc = "loop" /\ frame_idx >= 1) => Len(avg_colors) >= 1)
    /\ [][(pc = "loop" /\ pc' = "loop") =>
             /\ frame_idx' = frame_idx + 1
             /\ Len(avg_colors') = Len(avg_colors) + 1
                    <=> frame_idx % frame_step = 0
             /\ Len(avg_colors') = Len(avg_colors)
                    <=> frame_idx % frame_step # 0]_vars
    /\ [][(pc = "loop" /\ exc' = NoFramesError) => frame_idx = 0]_vars

\* C10 witness: with the default stride, nine frames were read and frames 0
\* and 8 sampled.
C10_Witness ==
    /\ pc = "loop"
    /\ frame_step = DefaultFrameStep
    /\ frame_idx = 9
    /\ Len(avg_colors) = 2

====
